---- MODULE Spec2Model ----
(***************************************************************************)
(* A model of btscreener: the calendar-event estimator and loaders of      *)
(* iex.py and the symbol loader and collection pipeline of collector.py.   *)
(*                                                                         *)
(* Instants (datetime.datetime) are integers counting clock ticks, with    *)
(* TicksPerDay ticks in a day; a date parsed from "YYYY-MM-DD" is the      *)
(* midnight of its day.  An optional Python value is None (<<>>) or        *)
(* Some(x) (<<x>>).                                                        *)
(***************************************************************************)
EXTENDS Integers, Sequences, FiniteSets, TLC

None == <<>>
Some(x) == <<x>>

\* Resolution of the clock: datetime.today() falls on or between midnights.
TicksPerDay == 2

\* iex.py:74 and iex.py:78, timedelta(days=365); iex.py:75, timedelta(days=730)
YearDays == 365
TwoYearDays == 730

timedelta(days) == days * TicksPerDay

\* parsedate: strptime(d, "%Y-%m-%d") is the midnight of day d
parsedate(d) == d * TicksPerDay

Range(s) == {s[i] : i \in DOMAIN s}
SeqsUpTo(S, n) == UNION {[1..k -> S] : k \in 0..n}
min(S) == CHOOSE x \in S : \A y \in S : x <= y
max(S) == CHOOSE x \in S : \A y \in S : y <= x

(***************************************************************************)
(* estimate_next (iex.py:63-80)                                            *)
(***************************************************************************)
\* guesses = [i + 365d for i in prev_dates] + [i + 730d for i in prev_dates]
Guesses(prev) ==
    [k \in 1..Len(prev) |-> prev[k] + timedelta(YearDays)]
    \o [k \in 1..Len(prev) |-> prev[k] + timedelta(TwoYearDays)]

\* two slips of the condition: the candidate itself compared with today, and
\* the two-year offset in place of the one-year one
StaleFilter(i, today) == i > today
LaxFilter(i, today) == i + timedelta(TwoYearDays) > today

\* the generator's condition: i + timedelta(days=365) > today
Fresh(i, today) == i + timedelta(YearDays) > today

\* min(...) raises ValueError on an empty generator, which returns None
estimate_next(prev, today) ==
    LET guesses == Guesses(prev)
        kept == {guesses[k] : k \in {j \in DOMAIN guesses : Fresh(guesses[j], today)}}
    IN  IF kept = {} THEN None ELSE Some(min(kept))

(***************************************************************************)
(* What a call does: it returns a value or raises.                         *)
(***************************************************************************)
Return(v) == [outcome |-> "return", exc |-> "", value |-> v]
Raise(e) == [outcome |-> "raise", exc |-> e, value |-> None]

(***************************************************************************)
(* Remote responses.  kind is "transport_error" (requests.get raises),     *)
(* "malformed" (the body is not the JSON shape the loader indexes: not     *)
(* JSON, or for earnings an object without the "earnings" key) or "ok".    *)
(* An earnings record is Some(day) when it carries EPSReportDate and       *)
(* fiscalEndDate and None when it lacks them; a dividend record is         *)
(* [exDate |-> Some(day) or None, amount |-> n], the other three date      *)
(* fields going with exDate.                                               *)
(***************************************************************************)
Response(kind, rows) == [kind |-> kind, rows |-> rows]

\* pd.DataFrame(records).columns: the union of the records' keys
EarningsColumns(rows) ==
    IF rows = <<>> THEN {}
    ELSE {"actualEPS"} \cup (IF \E k \in DOMAIN rows : rows[k] # None
                             THEN {"EPSReportDate", "fiscalEndDate"} ELSE {})

DividendsColumns(rows) ==
    IF rows = <<>> THEN {}
    ELSE {"amount"} \cup (IF \E k \in DOMAIN rows : rows[k].exDate # None
                          THEN {"declaredDate", "exDate", "paymentDate", "recordDate"}
                          ELSE {})

\* load_earnings (iex.py:101-117): the DataFrame is modelled by its index, the
\* parsed EPSReportDate of each record, in the response's order
load_earnings(resp) ==
    IF resp.kind # "ok" THEN Raise(resp.kind)
    \* df[["EPSReportDate", "fiscalEndDate"]] of a frame without these columns
    ELSE IF "EPSReportDate" \notin EarningsColumns(resp.rows) THEN Raise("KeyError")
    \* parsedate of the NaN of a record that lacks the field
    ELSE IF \E k \in DOMAIN resp.rows : resp.rows[k] = None THEN Raise("TypeError")
    ELSE Return(Some([k \in DOMAIN resp.rows |-> parsedate(resp.rows[k][1])]))

\* load_dividends (iex.py:119-138): the DataFrame is the sequence of its rows,
\* indexed by the parsed exDate
load_dividends(resp) ==
    IF resp.kind # "ok" THEN Raise(resp.kind)
    ELSE IF "exDate" \notin DividendsColumns(resp.rows) THEN Return(None)
    ELSE IF \E k \in DOMAIN resp.rows : resp.rows[k].exDate = None THEN Raise("TypeError")
    ELSE Return(Some([k \in DOMAIN resp.rows |->
                        [exDate |-> parsedate(resp.rows[k].exDate[1]),
                         amount |-> resp.rows[k].amount]]))

(***************************************************************************)
(* load_calendar (iex.py:140-178)                                          *)
(***************************************************************************)
\* A Python value of the lastDividend field: None, a float, or the Series
\* that .loc gives for a label the index holds more than once.
PyNone == [type |-> "NoneType", amounts |-> <<>>]
PyFloat(a) == [type |-> "float", amounts |-> <<a>>]
PySeries(s) == [type |-> "Series", amounts |-> s]

\* dividends.loc[label, "amount"]
LocAmount(df, label) ==
    LET hit(r) == r.exDate = label
        amounts == [k \in 1..Len(SelectSeq(df, hit)) |-> SelectSeq(df, hit)[k].amount]
    IN  IF Len(amounts) = 1 THEN PyFloat(amounts[1]) ELSE PySeries(amounts)

CalendarSummary(lastEPS, nextEPS, lastEx, lastDiv, nextEx) ==
    [lastEPSReportDate |-> lastEPS, nextEPSReportDate |-> nextEPS,
     lastExDate |-> lastEx, lastDividend |-> lastDiv, nextExDate |-> nextEx]

\* iex.py:155-160, given what load_earnings returned
EarningsFields(earnings, t1) ==
    IF earnings # None
    THEN <<Some(max(Range(earnings[1]))), estimate_next(earnings[1], t1)>>
    ELSE <<None, None>>

DividendFieldsFromDividends(earnings, dividends, t2) ==
    IF dividends # None
    THEN LET last_exDate == max({dividends[1][k].exDate : k \in DOMAIN dividends[1]})
             exDates == [k \in DOMAIN dividends[1] |-> dividends[1][k].exDate]
         IN  <<Some(last_exDate), LocAmount(dividends[1], last_exDate),
               estimate_next(exDates, t2)>>
    ELSE <<None, PyNone, None>>

\* iex.py:162-169, given what the loaders returned; earnings.index is read when
\* the dividends are present
DividendFields(earnings, dividends, t2) ==
    IF dividends # None
    THEN LET last_exDate == max({dividends[1][k].exDate : k \in DOMAIN dividends[1]})
         IN  <<Some(last_exDate), LocAmount(dividends[1], last_exDate),
               estimate_next(earnings[1], t2)>>
    ELSE <<None, PyNone, None>>

\* The whole call, given the two responses and what datetime.today() returns in
\* the first and in the second call of estimate_next.  An exception of a
\* loader propagates; earnings = None with dividends present would raise
\* AttributeError at earnings.index.
load_calendar(eresp, dresp, t1, t2) ==
    LET e == load_earnings(eresp)
        d == load_dividends(dresp)
    IN  IF e.outcome = "raise" THEN e
        ELSE IF d.outcome = "raise" THEN d
        ELSE IF e.value = None /\ d.value # None THEN Raise("AttributeError")
        ELSE LET ef == EarningsFields(e.value, t1)
                 df == DividendFields(e.value, d.value, t2)
             IN  Return(Some(CalendarSummary(ef[1], ef[2], df[1], df[2], df[3])))

(***************************************************************************)
(* collector.py: the symbol groups and load_sp500_weights                  *)
(***************************************************************************)
\* collector.py:41-44
dji_components_literal ==
    <<"v", "xom", "wmt", "cat", "cvx", "aapl", "gs", "axp",
      "ibm", "mcd", "mmm", "jpm", "ba", "trv", "msft", "dwdp",
      "pg", "nke", "ko", "mrk", "dis", "csco", "intc", "jnj",
      "pfe", "unh", "hd", "wba", "vz", "utx">>

\* collector.py:47-55
faves_components_literal ==
    <<"aapl", "fb", "amzn", "goog", "nflx",
      "dis", "de", "mcd", "ibm", "cpb",
      "nvda", "amd", "mu", "intc",
      "bac", "usb", "brk.b",
      "x", "cat", "ba", "luv",
      "tsla", "snap", "twtr", "spot",
      "tlry", "cgc", "stz",
      "pfe">>

\* A table is its column names and its Symbol column; a file is absent (None)
\* or Some([header, Symbol]), the empty file having no header.
Table(columns, symbols) == [columns |-> columns, Symbol |-> symbols]
EmptyFile == [header |-> <<>>, Symbol |-> <<>>]

\* df.to_csv(cache_fn): the index is written as a first, unnamed column
to_csv(df) == [header |-> <<"">> \o df.columns, Symbol |-> df.Symbol]

\* pd.read_csv(cache_fn) of an existing file: EmptyDataError (not an IOError)
\* for an empty one; an unnamed column is read as "Unnamed: 0"
read_csv(file) ==
    IF file.header = <<>> THEN Raise("EmptyDataError")
    ELSE Return(Some(Table(
            [k \in DOMAIN file.header |->
                IF file.header[k] = "" THEN "Unnamed: 0" ELSE file.header[k]],
            file.Symbol)))

\* what collector.py:85-94 makes of a well-formed spx_page.html
PageTable == Table(<<"Company", "Symbol", "Weight", "Price", "Change">>,
                   <<"msft", "aapl", "amzn">>)

\* what a failed to_csv may leave behind
WriteOutcomes == {"ok", "fail_no_file", "fail_empty_file", "fail_truncated"}
Written(df, w) ==
    CASE w = "ok" -> Some(to_csv(df))
      [] w = "fail_no_file" -> None
      [] w = "fail_empty_file" -> Some(EmptyFile)
      [] w = "fail_truncated" ->
            Some([to_csv(df) EXCEPT !.Symbol = SubSeq(df.Symbol, 1, Len(df.Symbol) - 1)])

\* collector.py:85-96, the handler of the IOError of a missing cache
Scrape(cache, html, w) ==
    IF html = "missing"
    THEN [ret |-> Raise("FileNotFoundError"), cache |-> cache,
          io |-> <<"read_csv", "open_html">>]
    ELSE IF html = "malformed"
    THEN [ret |-> Raise("AttributeError"), cache |-> cache,
          io |-> <<"read_csv", "open_html", "parse_html">>]
    ELSE [ret |-> IF w = "ok" THEN Return(Some(PageTable)) ELSE Raise("OSError"),
          cache |-> Written(PageTable, w),
          io |-> <<"read_csv", "open_html", "parse_html", "to_csv">>]

load_sp500_weights_always_scrape(cache, html, w) == Scrape(cache, html, w)

\* load_sp500_weights (collector.py:77-98), given the cache file, the state of
\* spx_page.html and how a to_csv would end: what it returns or raises, the
\* cache file it leaves and the file operations it performs
load_sp500_weights(cache, html, w) ==
    IF cache # None
    THEN [ret |-> read_csv(cache[1]), cache |-> cache, io |-> <<"read_csv">>]
    ELSE Scrape(cache, html, w)

(***************************************************************************)
(* load_symbol_list (collector.py:130-141)                                 *)
(***************************************************************************)
\* list(set(symbols)): the distinct elements, here in the order of their first
\* occurrence (the order Python gives is arbitrary)
ListOfSet(symbols) ==
    LET first(k) == \A j \in 1..(k - 1) : symbols[j] # symbols[k]
        firsts == SelectSeq([k \in DOMAIN symbols |-> k], first)
    IN  [i \in DOMAIN firsts |-> symbols[firsts[i]]]

\* The call on the list object `symbols` (the caller's, or the one default
\* object of the function), given what load_sp500_weights would do: what it
\* returns or raises and the list object afterwards.
load_symbol_list(groups, symbols, faves, dji, sp) ==
    LET extended ==
            IF "faves" \in groups THEN symbols \o faves
            ELSE IF "dji" \in groups THEN symbols \o dji
            ELSE IF "sp" \in groups /\ sp.ret.outcome = "return"
                 THEN symbols \o sp.ret.value[1].Symbol
            ELSE symbols
        sp_called == "faves" \notin groups /\ "dji" \notin groups /\ "sp" \in groups
    IN  IF sp_called /\ sp.ret.outcome = "raise"
        THEN [ret |-> sp.ret, symbols |-> symbols, sp_called |-> TRUE]
        ELSE [ret |-> IF Len(extended) = 0 THEN Raise("ValueError")
                      ELSE Return(Some(ListOfSet(extended))),
              symbols |-> extended, sp_called |-> sp_called]

(***************************************************************************)
(* generate_stats and run_collection (collector.py:101-127)                *)
(***************************************************************************)
\* the three calls of the loop body, in the order of collector.py:116-118
Steps == <<"load_historical", "run_backtest", "load_calendar">>

Event(i, step) == [symbol |-> i, step |-> step]

ContinueAfter(ok, k, last) ==
    IF k < Len(Steps) \/ ~last THEN "step" ELSE "build"

\* where control goes after step k of the loop body, `last` telling whether the
\* symbol is the last one: an exception leaves the generator, pd.DataFrame and
\* run_collection, which catch nothing; after the third call the row is
\* yielded and the for loop takes the next symbol or ends
AfterStep(ok, k, last) ==
    IF ~ok THEN "failed"
    ELSE IF k < Len(Steps) \/ ~last THEN "step" ELSE "build"

DataFrameOfDistinct(data, index) ==
    Return(Some([index |-> ListOfSet(index), data |-> ListOfSet(data)]))

\* pd.DataFrame(rows, index=symbols): one row per element of the data, labelled
\* by the index, whose length must be that of the data
DataFrame(data, index) ==
    IF Len(data) = Len(index)
    THEN Return(Some([index |-> index, data |-> data]))
    ELSE Raise("ValueError")

(***************************************************************************)
(* State                                                                   *)
(***************************************************************************)
VARIABLES
    est_pc,        \* "ready" before the call of estimate_next, "done" after
    prev_dates,    \* its argument
    est_today,     \* what datetime.today() returns inside it
    est_result,    \* what it returned
    \* iex.py: one call of a loader or of load_calendar for one symbol
    remote_earnings,   \* what the earnings endpoint answers for the symbol
    remote_dividends,  \* what the dividends endpoint answers for the symbol
    cal_pc,            \* "start" before the call, "done" after
    cal_call,          \* the function called
    requested,         \* the endpoints requested by the call, in order
    clock,             \* what datetime.today() returned in each estimate_next
    cal_ret,           \* what the call did: Return(..) or Raise(..)
    \* collector.py: a sequence of calls of load_symbol_list and load_sp500_weights
    default_symbols,   \* the list object that is the default of `symbols`
    faves_components,  \* the module's global lists
    dji_components,
    cache_file,        \* sp500_weights.csv: None or Some(file)
    html_page,         \* spx_page.html: "missing", "malformed" or "good"
    sym_calls,         \* calls made so far
    sym_call,          \* the last call: function, groups, explicit symbols
    sym_ret,           \* what it did
    sym_io,            \* the file operations it performed, in order
    sp_last,           \* the last run of load_sp500_weights
    sp_succeeded,      \* whether a run of load_sp500_weights has returned
    html_parses,       \* how often spx_page.html has been parsed
    \* collector.py: one run of run_collection, called directly or by cmd_collect
    col_requested,     \* the symbols asked for
    col_entry,         \* "" before the call, then "run_collection" or "cmd_collect"
    col_symbols,       \* the argument of run_collection
    pool_size,         \* the pool_size keyword: None or Some(n)
    col_pc,            \* "call", "step", "build", "done" or "failed"
    col_idx,           \* index of the symbol the generator is at
    col_step,          \* index in Steps of the next call of the loop body
    col_rows,          \* the rows yielded so far
    col_log,           \* the calls made so far, in order
    col_exc,           \* the call that raised, if one did
    col_ret            \* what the entry point returned or raised

estVars == <<est_pc, prev_dates, est_today, est_result>>
calVars == <<remote_earnings, remote_dividends, cal_pc, cal_call, requested, clock, cal_ret>>
symVars == <<default_symbols, faves_components, dji_components, cache_file, html_page,
             sym_calls, sym_call, sym_ret, sym_io, sp_last, sp_succeeded, html_parses>>
colVars == <<col_requested, col_entry, col_symbols, pool_size, col_pc, col_idx, col_step,
             col_rows, col_log, col_exc, col_ret>>
vars == <<estVars, calVars, symVars, colVars>>

IdleEstimate ==
    est_pc = "idle" /\ prev_dates = <<>> /\ est_today = 0 /\ est_result = None
IdleCalendar ==
    /\ remote_earnings = Response("ok", <<>>) /\ remote_dividends = Response("ok", <<>>)
    /\ cal_pc = "idle" /\ cal_call = "" /\ requested = <<>> /\ clock = <<>>
    /\ cal_ret = Return(None)
NoCall == [fn |-> "", groups |-> {}, explicit |-> None]
NoRun == [invoked |-> FALSE, pre_cache |-> None, had_succeeded |-> FALSE,
          ret |-> Return(None), io |-> <<>>]
IdleSymbols ==
    /\ default_symbols = <<>> /\ faves_components = <<>> /\ dji_components = <<>>
    /\ cache_file = None /\ html_page = "missing" /\ sym_calls = 0
    /\ sym_call = NoCall /\ sym_ret = Return(None) /\ sym_io = <<>>
    /\ sp_last = NoRun /\ sp_succeeded = FALSE /\ html_parses = 0
IdleCollection ==
    /\ col_requested = <<>> /\ col_entry = "" /\ col_symbols = <<>> /\ pool_size = None
    /\ col_pc = "idle" /\ col_idx = 0 /\ col_step = 0 /\ col_rows = <<>>
    /\ col_log = <<>> /\ col_exc = None /\ col_ret = Return(None)

(***************************************************************************)
(* Inputs of the estimator                                                 *)
(***************************************************************************)
MaxYearsBack == 3
Slack == 1
MaxDates == 2

\* the day the estimator runs on
TodayDay == (MaxYearsBack + 2) * YearDays

\* past days around each anniversary of today
EstDays ==
    {d \in {TodayDay - j * YearDays + e : j \in 0..MaxYearsBack, e \in (0 - Slack)..Slack} :
        d <= TodayDay}

EstClock == {parsedate(TodayDay) + k : k \in 0..(TicksPerDay - 1)}

InitEstimate ==
    /\ est_pc = "ready"
    /\ prev_dates \in SeqsUpTo({parsedate(d) : d \in EstDays}, MaxDates)
    /\ est_today \in EstClock
    /\ est_result = None
    /\ IdleCalendar
    /\ IdleSymbols
    /\ IdleCollection

CallEstimateNext ==
    /\ est_pc = "ready"
    /\ est_result' = estimate_next(prev_dates, est_today)
    /\ est_pc' = "done"
    /\ UNCHANGED <<prev_dates, est_today, calVars, symVars, colVars>>

NextEstimate == CallEstimateNext

SpecEstimate == InitEstimate /\ [][NextEstimate]_vars

\* the candidates of the estimator: one and two years after each past date
Candidates == {prev_dates[k] + timedelta(YearDays) : k \in DOMAIN prev_dates}
              \cup {prev_dates[k] + timedelta(TwoYearDays) : k \in DOMAIN prev_dates}
Surviving == {c \in Candidates : c + timedelta(YearDays) > est_today}

\* C1: estimate_next returns the earliest candidate (date + 365 d or date + 730 d)
\* whose own + 365 d projection is strictly after today, and None when no
\* candidate survives, the empty input included.
C1_EstimateIsEarliestSurvivor ==
    est_pc = "done" =>
        /\ (Surviving = {}) <=> (est_result = None)
        /\ Surviving # {} =>
              /\ Len(est_result) = 1
              /\ est_result[1] \in Surviving
              /\ \A c \in Surviving : est_result[1] <= c

C1_Witness ==
    /\ est_pc = "done"
    /\ Len(prev_dates) = 2
    /\ est_result # None
    /\ Cardinality(Surviving) >= 2
    /\ Cardinality(Candidates \ Surviving) >= 1

C1_WitnessEmpty == est_pc = "done" /\ prev_dates = <<>> /\ est_result = None

\* C2 as stated: a non-empty input gives None or a date strictly after
\* today minus one day.
C2_Original_NotOlderThanOneDay ==
    (est_pc = "done" /\ prev_dates # <<>> /\ est_result # None) =>
        est_result[1] > est_today - timedelta(1)

\* C2 as amended: a non-empty input gives None or a date strictly after
\* today minus 365 days.
C2_NotOlderThanOneYear ==
    (est_pc = "done" /\ prev_dates # <<>> /\ est_result # None) =>
        est_result[1] > est_today - timedelta(YearDays)

C2_Witness ==
    /\ est_pc = "done"
    /\ prev_dates # <<>>
    /\ est_result # None
    /\ est_result[1] < est_today - timedelta(1)
(***************************************************************************)
(* One call of load_earnings, load_dividends or load_calendar              *)
(***************************************************************************)
MaxRecords == 2
MaxAmount == 2
MaxClockDrift == 1

\* report days: a recent one, one whose first anniversary goes stale at
\* tomorrow's midnight, and one whose first anniversary is stale already
EarningsDays == {TodayDay - 100, TodayDay - (TwoYearDays - 1), TodayDay - 800}
DividendDays == {TodayDay - 30, TodayDay - 120}

EarningsRecords == {None} \cup {Some(d) : d \in EarningsDays}
DividendRecords ==
    [exDate : {None} \cup {Some(d) : d \in DividendDays}, amount : 1..MaxAmount]

EarningsResponses ==
    {Response("transport_error", <<>>), Response("malformed", <<>>)}
    \cup {Response("ok", rows) : rows \in SeqsUpTo(EarningsRecords, MaxRecords)}
DividendsResponses ==
    {Response("transport_error", <<>>), Response("malformed", <<>>)}
    \cup {Response("ok", rows) : rows \in SeqsUpTo(DividendRecords, MaxRecords)}

CalClock == {parsedate(TodayDay) + k : k \in 0..(TicksPerDay - 1)}

InitCalendar ==
    /\ remote_earnings \in EarningsResponses
    /\ remote_dividends \in DividendsResponses
    /\ cal_pc = "start"
    /\ cal_call = ""
    /\ requested = <<>>
    /\ clock = <<>>
    /\ cal_ret = Return(None)
    /\ IdleEstimate
    /\ IdleSymbols
    /\ IdleCollection

CallLoadEarnings ==
    /\ cal_pc = "start"
    /\ cal_call' = "load_earnings"
    /\ requested' = <<"earnings">>
    /\ cal_ret' = load_earnings(remote_earnings)
    /\ cal_pc' = "done"
    /\ UNCHANGED <<remote_earnings, remote_dividends, clock, estVars, symVars, colVars>>

CallLoadDividends ==
    /\ cal_pc = "start"
    /\ cal_call' = "load_dividends"
    /\ requested' = <<"dividends">>
    /\ cal_ret' = load_dividends(remote_dividends)
    /\ cal_pc' = "done"
    /\ UNCHANGED <<remote_earnings, remote_dividends, clock, estVars, symVars, colVars>>

\* the clock is read once in each call of estimate_next and does not go back
CallLoadCalendar ==
    /\ cal_pc = "start"
    /\ \E t1 \in CalClock : \E t2 \in t1..(t1 + MaxClockDrift) :
        LET e == load_earnings(remote_earnings)
            d == load_dividends(remote_dividends)
        IN  /\ cal_ret' = load_calendar(remote_earnings, remote_dividends, t1, t2)
            /\ requested' = IF e.outcome = "raise" THEN <<"earnings">>
                            ELSE <<"earnings", "dividends">>
            /\ clock' = IF e.outcome = "raise" \/ d.outcome = "raise" THEN <<>>
                        ELSE IF d.value = None THEN <<t1>>
                        ELSE <<t1, t2>>
    /\ cal_call' = "load_calendar"
    /\ cal_pc' = "done"
    /\ UNCHANGED <<remote_earnings, remote_dividends, estVars, symVars, colVars>>

NextCalendar == CallLoadEarnings \/ CallLoadDividends \/ CallLoadCalendar

SpecCalendar == InitCalendar /\ [][NextCalendar]_vars

AllNull == CalendarSummary(None, None, None, PyNone, None)

\* C3: for a symbol with zero earnings records and zero dividend records,
\* load_calendar returns a summary whose five fields are all null, and does
\* not raise.
C3_EmptySymbolAllNull ==
    (/\ cal_pc = "done" /\ cal_call = "load_calendar"
     /\ remote_earnings = Response("ok", <<>>)
     /\ remote_dividends = Response("ok", <<>>))
    => cal_ret = Return(Some(AllNull))

\* the response is well-formed and either empty or without the date field
EarningsAbsent ==
    remote_earnings.kind = "ok" /\ \A k \in DOMAIN remote_earnings.rows :
                                       remote_earnings.rows[k] = None
DividendsAbsent ==
    remote_dividends.kind = "ok" /\ \A k \in DOMAIN remote_dividends.rows :
                                        remote_dividends.rows[k].exDate = None

\* C4: each event loader returns None, and does not raise, when the response
\* is well-formed but empty or lacks the loader's date field; it raises only
\* on a transport failure or a malformed response.
C4_LoadersSignalAbsence ==
    /\ (cal_pc = "done" /\ cal_call = "load_earnings" /\ EarningsAbsent)
          => cal_ret = Return(None)
    /\ (cal_pc = "done" /\ cal_call = "load_dividends" /\ DividendsAbsent)
          => cal_ret = Return(None)

\* the part of C4 that the dividends loader meets
C4_DividendsLoaderSignalsAbsence ==
    (cal_pc = "done" /\ cal_call = "load_dividends" /\ DividendsAbsent)
        => cal_ret = Return(None)
\* the symbol's report days and ex-dividend records as the endpoints give them
ReportDates == {parsedate(remote_earnings.rows[k][1]) : k \in DOMAIN remote_earnings.rows}
ExRecords == [k \in DOMAIN remote_dividends.rows |->
                 [exDate |-> parsedate(remote_dividends.rows[k].exDate[1]),
                  amount |-> remote_dividends.rows[k].amount]]
ExDates == {ExRecords[k].exDate : k \in DOMAIN ExRecords}
LastExRecords == {k \in DOMAIN ExRecords : ExRecords[k].exDate = max(ExDates)}

\* the earliest of the dates one and two years after a date of D whose own
\* projection one year on is after today, if any
Projected(D) == {d + timedelta(YearDays) : d \in D} \cup {d + timedelta(TwoYearDays) : d \in D}
Expected(D, today) ==
    LET ok == {c \in Projected(D) : c + timedelta(YearDays) > today}
    IN  IF ok = {} THEN None ELSE Some(min(ok))

CalendarReturned ==
    cal_pc = "done" /\ cal_call = "load_calendar" /\ cal_ret.outcome = "return"
DividendsPresent == \E k \in DOMAIN remote_dividends.rows : remote_dividends.rows[k].exDate # None
Summary == cal_ret.value[1]

C5_EarningsFields ==
    /\ Summary.lastEPSReportDate = Some(max(ReportDates))
    /\ Summary.nextEPSReportDate = Expected(ReportDates, clock[1])
C5_DividendsAbsentFields ==
    ~DividendsPresent =>
        /\ Summary.lastExDate = None
        /\ Summary.lastDividend = PyNone
        /\ Summary.nextExDate = None

\* C5 as stated: with a non-empty earnings series E, lastEPSReportDate = max E
\* and nextEPSReportDate = estimate_next(E); with dividends V present,
\* lastExDate = max V, lastDividend = the amount recorded at that exDate and
\* nextExDate = estimate_next(E), always equal to nextEPSReportDate; with
\* dividends absent the three dividend fields are null.
C5_Original_CalendarFields ==
    CalendarReturned =>
        /\ C5_EarningsFields
        /\ DividendsPresent =>
              /\ Summary.lastExDate = Some(max(ExDates))
              /\ \E k \in LastExRecords : Summary.lastDividend = PyFloat(ExRecords[k].amount)
              /\ Summary.nextExDate = Summary.nextEPSReportDate
        /\ C5_DividendsAbsentFields

\* C5 as amended: as stated, except that nextExDate is estimate_next(E) at the
\* later clock reading of its own call (equal to nextEPSReportDate when the
\* two readings agree), and that lastDividend is the amount recorded at the
\* last exDate when one record carries it and the series of the amounts of
\* all records carrying it otherwise.
C5_CalendarFields ==
    CalendarReturned =>
        /\ C5_EarningsFields
        /\ DividendsPresent =>
              /\ Summary.lastExDate = Some(max(ExDates))
              /\ Cardinality(LastExRecords) = 1 =>
                    \E k \in LastExRecords : Summary.lastDividend = PyFloat(ExRecords[k].amount)
              /\ Cardinality(LastExRecords) > 1 =>
                    /\ Summary.lastDividend.type = "Series"
                    /\ Len(Summary.lastDividend.amounts) = Cardinality(LastExRecords)
                    /\ \A k \in LastExRecords : \E j \in DOMAIN Summary.lastDividend.amounts :
                           Summary.lastDividend.amounts[j] = ExRecords[k].amount
              /\ Summary.nextExDate = Expected(ReportDates, clock[2])
              /\ clock[1] = clock[2] => Summary.nextExDate = Summary.nextEPSReportDate
        /\ C5_DividendsAbsentFields

C5_Witness ==
    /\ CalendarReturned
    /\ Len(remote_earnings.rows) = 2
    /\ DividendsPresent
    /\ Cardinality(ExDates) = 2
    /\ Summary.nextExDate # None
    /\ Summary.nextExDate = Summary.nextEPSReportDate
    /\ Summary.nextExDate # Expected(ExDates, clock[2])
    /\ Summary.lastDividend.type = "float"
(***************************************************************************)
(* A sequence of calls of load_symbol_list and load_sp500_weights in one   *)
(* process, on one file system                                             *)
(***************************************************************************)
MaxCalls == 3

Groups == SUBSET {"faves", "dji", "sp"}
ExplicitLists == {<<>>, <<"aapl">>, <<"tsm", "tsm">>}

InitSymbols ==
    /\ default_symbols = <<>>
    /\ faves_components = faves_components_literal
    /\ dji_components = dji_components_literal
    /\ cache_file \in {None, Some(to_csv(PageTable)), Some(EmptyFile)}
    /\ html_page \in {"missing", "malformed", "good"}
    /\ sym_calls = 0
    /\ sym_call = NoCall
    /\ sym_ret = Return(None)
    /\ sym_io = <<>>
    /\ sp_last = NoRun
    /\ sp_succeeded = FALSE
    /\ html_parses = 0
    /\ IdleEstimate
    /\ IdleCalendar
    /\ IdleCollection

Parses(io) == Cardinality({k \in DOMAIN io : io[k] = "parse_html"})

\* the bookkeeping of one run of load_sp500_weights
RunSp500(sp) ==
    /\ cache_file' = sp.cache
    /\ sp_last' = [invoked |-> TRUE, pre_cache |-> cache_file,
                   had_succeeded |-> sp_succeeded, ret |-> sp.ret, io |-> sp.io]
    /\ sp_succeeded' = (sp_succeeded \/ sp.ret.outcome = "return")
    /\ html_parses' = html_parses + Parses(sp.io)

CallLoadSymbolList ==
    /\ sym_calls < MaxCalls
    /\ \E groups \in Groups, explicit \in {None} \cup {Some(l) : l \in ExplicitLists} :
       \E w \in (IF groups = {"sp"} /\ cache_file = None /\ html_page = "good"
                 THEN WriteOutcomes ELSE {"ok"}) :
        LET symbols == IF explicit = None THEN default_symbols ELSE explicit[1]
            sp == load_sp500_weights(cache_file, html_page, w)
            r == load_symbol_list(groups, symbols, faves_components, dji_components, sp)
        IN  /\ sym_call' = [fn |-> "load_symbol_list", groups |-> groups,
                            explicit |-> explicit]
            /\ sym_ret' = r.ret
            /\ default_symbols' = IF explicit = None THEN r.symbols ELSE default_symbols
            /\ IF r.sp_called
               THEN RunSp500(sp) /\ sym_io' = sp.io
               ELSE /\ sym_io' = <<>>
                    /\ UNCHANGED <<cache_file, sp_last, sp_succeeded, html_parses>>
    /\ sym_calls' = sym_calls + 1
    /\ UNCHANGED <<faves_components, dji_components, html_page, estVars, calVars, colVars>>

CallLoadSp500Weights ==
    /\ sym_calls < MaxCalls
    /\ \E w \in (IF cache_file = None /\ html_page = "good"
                 THEN WriteOutcomes ELSE {"ok"}) :
        LET sp == load_sp500_weights(cache_file, html_page, w)
        IN  /\ RunSp500(sp)
            /\ sym_ret' = sp.ret
            /\ sym_io' = sp.io
    /\ sym_call' = [fn |-> "load_sp500_weights", groups |-> {}, explicit |-> None]
    /\ sym_calls' = sym_calls + 1
    /\ UNCHANGED <<default_symbols, faves_components, dji_components, html_page,
                   estVars, calVars, colVars>>

\* the user saves, replaces or removes spx_page.html between calls
SavePage ==
    /\ sym_calls < MaxCalls
    /\ html_page' \in {"missing", "malformed", "good"} \ {html_page}
    /\ UNCHANGED <<default_symbols, faves_components, dji_components, cache_file,
                   sym_calls, sym_call, sym_ret, sym_io, sp_last, sp_succeeded,
                   html_parses, estVars, calVars, colVars>>

NextSymbols == CallLoadSymbolList \/ CallLoadSp500Weights \/ SavePage

SpecSymbols == InitSymbols /\ [][NextSymbols]_vars

NoDuplicates(l) == \A i, j \in DOMAIN l : l[i] = l[j] => i = j

\* C7: every call of load_symbol_list with no group and an empty symbol list,
\* passed explicitly or left to the default, raises 'No symbols or groups
\* provided' before any file access, whatever the earlier calls were.
C7_NoSymbolsRaises ==
    (/\ sym_call.fn = "load_symbol_list"
     /\ sym_call.groups = {}
     /\ sym_call.explicit \in {None, Some(<<>>)})
    => (sym_ret = Raise("ValueError") /\ sym_io = <<>>)

\* the part of C7 that holds: an explicitly passed empty list
C7_ExplicitEmptyRaises ==
    (/\ sym_call.fn = "load_symbol_list"
     /\ sym_call.groups = {}
     /\ sym_call.explicit = Some(<<>>))
    => (sym_ret = Raise("ValueError") /\ sym_io = <<>>)

\* C8: every call of load_symbol_list with the group faves and no explicit
\* symbols returns a non-empty list without duplicates whose elements are
\* exactly those of faves_components (so 'aapl' and 'amzn' are among them),
\* whatever the earlier calls were, and leaves faves_components and
\* dji_components as they were.
C8_FavesIsFixed ==
    (/\ sym_call.fn = "load_symbol_list"
     /\ sym_call.groups = {"faves"}
     /\ sym_call.explicit = None)
    => /\ sym_ret.outcome = "return"
       /\ sym_ret.value # None
       /\ sym_ret.value[1] # <<>>
       /\ NoDuplicates(sym_ret.value[1])
       /\ Range(sym_ret.value[1]) = Range(faves_components_literal)
       /\ {"aapl", "amzn"} \subseteq Range(sym_ret.value[1])
       /\ faves_components = faves_components_literal
       /\ dji_components = dji_components_literal

\* the part of C8 that holds: the first call of the process
C8_FirstFavesCall ==
    (/\ sym_calls = 1
     /\ sym_call.fn = "load_symbol_list"
     /\ sym_call.groups = {"faves"}
     /\ sym_call.explicit = None)
    => /\ sym_ret.outcome = "return"
       /\ NoDuplicates(sym_ret.value[1])
       /\ Range(sym_ret.value[1]) = Range(faves_components_literal)
\* C10 as stated, in its consequence for a sequence of calls: the HTML page is
\* parsed at most once (together with the per-call behaviour of C10_CacheFirst).
C10_Original_ParsedAtMostOnce == html_parses <= 1

\* C10 as amended: load_sp500_weights reads the cache file first; a successful
\* read returns the cached table, opens no page and leaves the cache as it
\* was; with the cache missing, a run that returns has parsed the page,
\* written the parsed table to the cache and returns it.  After a run that
\* returned the cache file exists and no later run opens the page (runs that
\* fail before the cache is written parse the page again each time); a run
\* that fails in the scrape or parse leaves no cache file and returns nothing.
C10_CacheFirst ==
    sp_last.invoked =>
        /\ sp_last.io[1] = "read_csv"
        /\ (sp_last.pre_cache # None /\ sp_last.ret.outcome = "return") =>
              /\ sp_last.io = <<"read_csv">>
              /\ sp_last.ret.value[1].Symbol = sp_last.pre_cache[1].Symbol
              /\ cache_file = sp_last.pre_cache
        /\ (sp_last.pre_cache = None /\ sp_last.ret.outcome = "return") =>
              /\ sp_last.io = <<"read_csv", "open_html", "parse_html", "to_csv">>
              /\ sp_last.ret.value = Some(PageTable)
              /\ cache_file # None
              /\ cache_file[1].Symbol = PageTable.Symbol
        /\ sp_last.ret.outcome = "return" => cache_file # None
        /\ sp_last.had_succeeded =>
              \A k \in DOMAIN sp_last.io : sp_last.io[k] \notin {"open_html", "parse_html"}
        /\ (/\ sp_last.ret.outcome = "raise"
            /\ sp_last.pre_cache = None
            /\ \A k \in DOMAIN sp_last.io : sp_last.io[k] # "to_csv") =>
              /\ cache_file = None
              /\ sp_last.ret.value = None

\* a run that scraped, and a later run served from the cache it wrote
C10_Witness ==
    /\ sp_last.invoked
    /\ sp_last.had_succeeded
    /\ sp_last.ret.outcome = "return"
    /\ sp_last.io = <<"read_csv">>
    /\ html_parses = 1
(***************************************************************************)
(* One run of the collection pipeline                                      *)
(***************************************************************************)
MaxSymbols == 3

Tickers == {"AAPL", "MSFT"}
\* test_collect.py:22-24, and the call without the keyword
PoolSizes == {None, Some(4), Some(8)}

InitCollection ==
    /\ col_requested \in SeqsUpTo(Tickers, MaxSymbols)
    /\ col_entry = ""
    /\ col_symbols = <<>>
    /\ pool_size = None
    /\ col_pc = "call"
    /\ col_idx = 0
    /\ col_step = 0
    /\ col_rows = <<>>
    /\ col_log = <<>>
    /\ col_exc = None
    /\ col_ret = Return(None)
    /\ IdleEstimate
    /\ IdleCalendar
    /\ IdleSymbols

\* the generator starts: the for loop takes the first symbol or ends
Enter(symbols) ==
    /\ col_symbols' = symbols
    /\ col_idx' = 1
    /\ col_step' = 1
    /\ col_pc' = IF symbols = <<>> THEN "build" ELSE "step"

\* run_collection(symbols, pool_size=..): the keyword lands in **kwargs
CallRunCollection ==
    /\ col_pc = "call"
    /\ col_entry' = "run_collection"
    /\ pool_size' \in PoolSizes
    /\ Enter(col_requested)
    /\ UNCHANGED <<col_requested, col_rows, col_log, col_exc, col_ret,
                   estVars, calVars, symVars>>

\* cmd_collect (collector.py:153-156) with the symbols of -s and, or not, the
\* group faves; load_symbol_list is given a list of its own
CallCmdCollect ==
    /\ col_pc = "call"
    /\ col_entry' = "cmd_collect"
    /\ pool_size' = None
    /\ \E groups \in {{}, {"faves"}} :
        LET r == load_symbol_list(groups, col_requested, faves_components_literal,
                                  dji_components_literal,
                                  load_sp500_weights(None, "missing", "ok"))
        IN  IF r.ret.outcome = "raise"
            THEN /\ col_ret' = r.ret
                 /\ col_pc' = "failed"
                 /\ UNCHANGED <<col_symbols, col_idx, col_step>>
            ELSE /\ Enter(r.ret.value[1])
                 /\ UNCHANGED col_ret
    /\ UNCHANGED <<col_requested, col_rows, col_log, col_exc, estVars, calVars, symVars>>

\* one call of the loop body for the current symbol; it returns or raises, and
\* the return of the third is followed by pd.concat and the yield of the row
Step ==
    /\ col_pc = "step"
    /\ \E ok \in BOOLEAN :
        LET yields == ok /\ col_step = Len(Steps)
        IN  /\ col_log' = Append(col_log, Event(col_idx, Steps[col_step]))
            /\ col_pc' = AfterStep(ok, col_step, col_idx = Len(col_symbols))
            /\ col_exc' = IF ok THEN col_exc ELSE Some(Event(col_idx, Steps[col_step]))
            /\ col_ret' = IF ok THEN col_ret ELSE Raise(Steps[col_step])
            /\ col_rows' = IF yields THEN Append(col_rows, col_symbols[col_idx])
                           ELSE col_rows
            /\ col_idx' = IF yields THEN col_idx + 1 ELSE col_idx
    /\ col_step' = IF col_step < Len(Steps) THEN col_step + 1 ELSE 1
    /\ UNCHANGED <<col_requested, col_entry, col_symbols, pool_size,
                   estVars, calVars, symVars>>

\* the generator is exhausted: pd.DataFrame builds the table and
\* run_collection returns it
BuildTable ==
    /\ col_pc = "build"
    /\ col_ret' = DataFrame(col_rows, col_symbols)
    /\ col_pc' = "done"
    /\ UNCHANGED <<col_requested, col_entry, col_symbols, pool_size, col_idx, col_step,
                   col_rows, col_log, col_exc, estVars, calVars, symVars>>

NextCollection == CallRunCollection \/ CallCmdCollect \/ Step \/ BuildTable

SpecCollection == InitCollection /\ [][NextCollection]_vars

TableReturned == col_pc = "done" /\ col_ret.outcome = "return" /\ col_ret.value # None
TableRows == Len(col_ret.value[1].data)

\* C6 as stated: the table run_collection returns has as many rows as its
\* input sequence has distinct symbols.
C6_Original_RowPerDistinctSymbol ==
    TableReturned => TableRows = Cardinality(Range(col_symbols))

\* C6 as amended: the table run_collection returns has one row per element of
\* its input sequence, in input order, duplicates included; that is the
\* number of distinct symbols when the input has none, as it has none when
\* cmd_collect passes the list load_symbol_list returned.
C6_RowPerInputElement ==
    TableReturned =>
        /\ TableRows = Len(col_symbols)
        /\ col_ret.value[1].index = col_symbols
        /\ col_ret.value[1].data = col_symbols
        /\ NoDuplicates(col_symbols) => TableRows = Cardinality(Range(col_symbols))
        /\ col_entry = "cmd_collect" =>
              /\ NoDuplicates(col_symbols)
              /\ Range(col_requested) \subseteq Range(col_symbols)

C6_Witness ==
    /\ TableReturned
    /\ col_entry = "run_collection"
    /\ Len(col_symbols) = 3
    /\ Cardinality(Range(col_symbols)) = 2

\* the calls of a run in which nothing fails
ExpectedLog(symbols) ==
    [k \in 1..(Len(Steps) * Len(symbols)) |->
        Event(((k - 1) \div Len(Steps)) + 1, Steps[((k - 1) % Len(Steps)) + 1])]

\* C9: whatever pool_size is, the symbols are processed one at a time in input
\* order, each by historical fetch, backtest, calendar fetch, no call for a
\* symbol starting before the row of the one before is complete; a failure
\* for a symbol propagates: no later call is made and no table is returned.
C9_SequentialFailFast ==
    col_entry # "" =>
        /\ Len(col_log) <= Len(ExpectedLog(col_symbols))
        /\ \A k \in DOMAIN col_log : col_log[k] = ExpectedLog(col_symbols)[k]
        /\ Len(col_rows) = (IF col_exc = None THEN Len(col_log) ELSE Len(col_log) - 1)
                               \div Len(Steps)
        /\ \A k \in DOMAIN col_rows : col_rows[k] = col_symbols[k]
        /\ col_exc # None =>
              /\ col_log[Len(col_log)] = col_exc[1]
              /\ col_pc = "failed"
              /\ col_ret.outcome = "raise"
        /\ col_ret.value # None =>
              /\ col_exc = None
              /\ col_log = ExpectedLog(col_symbols)

C9_Witness ==
    /\ col_pc = "failed"
    /\ pool_size = Some(8)
    /\ Len(col_symbols) = 3
    /\ col_exc = Some(Event(2, "load_calendar"))
    /\ Len(col_rows) = 1
====
